---- MODULE Spec2Model ----
(* A model of yml2xls.py: a YAML order record is transcribed onto copies  *)
(* of a blank requisition form, ten items per form, and the forms are     *)
(* optionally converted to pdf by an external tool.                       *)
EXTENDS Integers, Sequences, FiniteSets, TLC

(* ---------------------------------------------------------------------- *)
(* Bounds of the model and constants of the program                       *)
(* ---------------------------------------------------------------------- *)

\* the largest number of items an order record of the model holds
MaxItems == 25

\* page capacity handed to chunks() by save_form
Capacity == 10

\* first row of the item area, populate_parts
FirstRow == 32

(* ---------------------------------------------------------------------- *)
(* Values: Python objects of different types, tagged so that a string and *)
(* a number are comparable                                                *)
(* ---------------------------------------------------------------------- *)

S(s) == <<"str", s>>

I(n) == <<"int", n>>

None == <<"None">>

Digit(d) ==
  CASE d = 0 -> "0" [] d = 1 -> "1" [] d = 2 -> "2" [] d = 3 -> "3"
    [] d = 4 -> "4" [] d = 5 -> "5" [] d = 6 -> "6" [] d = 7 -> "7"
    [] d = 8 -> "8" [] d = 9 -> "9"

\* str(n) / "{}".format(n) for a natural number
RECURSIVE Str(_)
Str(n) == IF n < 10 THEN Digit(n) ELSE Str(n \div 10) \o Digit(n % 10)

\* "{:02d}".format(n) for a natural number
Fmt02d(n) == IF n < 10 THEN "0" \o Str(n) ELSE Str(n)

\* dict.get(k, default) on a dict modelled as a function
Get(d, k, default) == IF k \in DOMAIN d THEN d[k] ELSE default

\* lst[a:b] of Python for 0 <= a <= b, on a 1-based sequence
Slice(lst, a, b) ==
  SubSeq(lst, a + 1, IF b < Len(lst) THEN b ELSE Len(lst))

\* an ordered dict is a sequence of <<key, value>> pairs with distinct keys;
\* d[k] = v of Python keeps the position of a key already present
DictSet(d, k, v) ==
  IF \E x \in 1..Len(d) : d[x][1] = k
    THEN [x \in 1..Len(d) |-> IF d[x][1] = k THEN <<k, v>> ELSE d[x]]
    ELSE Append(d, <<k, v>>)

\* {k: v for (k, v) in pairs}
RECURSIVE DictOf(_)
DictOf(pairs) ==
  IF pairs = <<>> THEN <<>>
  ELSE DictSet(DictOf(SubSeq(pairs, 1, Len(pairs) - 1)),
               pairs[Len(pairs)][1], pairs[Len(pairs)][2])

(* ---------------------------------------------------------------------- *)
(* chunks(d, n)                                                           *)
(* ---------------------------------------------------------------------- *)

\* the loop `for i in range(0, len(lst), n)` from index i on
RECURSIVE ChunksFrom(_, _, _)
ChunksFrom(lst, n, i) ==
  IF i >= Len(lst) THEN <<>>
  ELSE <<DictOf(Slice(lst, i, i + n))>> \o ChunksFrom(lst, n, i + n)

\* a paginator that loses the last entry of every full page
chunks_short(d, n) ==
  LET RECURSIVE F(_)
      F(i) == IF i >= Len(d) THEN <<>>
              ELSE <<DictOf(Slice(d, i, i + n - 1))>> \o F(i + n)
  IN F(0)

\* a paginator that answers an empty mapping with one empty page
chunks_blank(d, n) == IF Len(d) = 0 THEN << <<>> >> ELSE ChunksFrom(d, n, 0)

chunks(d, n) == ChunksFrom(d, n, 0)


(* ---------------------------------------------------------------------- *)
(* The form: a workbook is the blank template plus the cells written to   *)
(* it, so it is modelled as the function cell -> value of those writes    *)
(* ---------------------------------------------------------------------- *)

\* the bytes urlopen(blank_req_url).read() returns
TemplateBytes == <<"bytes", "Requisition2014.xlsx">>

\* openpyxl.load_workbook(io.BytesIO(raw)): the template, nothing written
load_workbook(raw) == [c \in {} |-> None]

\* ws[c] = v
SetCell(wb, c, v) ==
  [x \in DOMAIN wb \cup {c} |-> IF x = c THEN v ELSE wb[x]]

\* datetime.date.today().strftime("%b. %d, %Y")
Today == "Nov. 05, 2026"

Required ==
  {"requestor_name", "requestor_phone", "supervisor_name", "use_for_project"}

OptionalTop == {"delivery_date", "cost_object", "submission_date"}

VendorKeys ==
  {"name", "address", "city", "state", "zip", "contact_name",
   "contact_phone", "phone", "fax", "url"}

\* lines 54-65: the cells filled from src["vendor"], in statement order
VendorWrites(v) ==
  << <<"B11", S(Get(v, "name", ""))>>,
     <<"B13", S(Get(v, "address", ""))>>,
     <<"B16", S(Get(v, "city", "") \o ", " \o Get(v, "state", "") \o " "
              \o Get(v, "zip", ""))>>,
     <<"B24", S(Get(v, "contact_name", "") \o ", "
              \o Get(v, "contact_phone", ""))>>,
     <<"B22", S(Get(v, "phone", ""))>>,
     <<"F22", S(Get(v, "fax", ""))>>,
     <<"B26", S(Get(v, "url", ""))>> >>

\* lines 67-71: the cells filled with src.get(key, default)
DefaultedWrites(src) ==
  << <<"E28", S(Get(src, "delivery_date", ""))>>,
     <<"D43", S(Get(src, "cost_object", ""))>>,
     <<"B45", S(Get(src, "submission_date", Today))>> >>

\* lines 72-76: the cells filled with src[key], in statement order
RequiredCells ==
  << <<"C47", "requestor_name">>, <<"K47", "requestor_phone">>,
     <<"C49", "supervisor_name">>, <<"B18", "use_for_project">> >>

\* the cells populate_misc_fields assigns
MiscCells ==
  {"B11", "B13", "B16", "B24", "B22", "F22", "B26", "E28", "D43", "B45",
   "C47", "K47", "C49", "B18"}

RECURSIVE WriteAll(_, _)
WriteAll(wb, ws) ==
  IF ws = <<>> THEN wb
  ELSE WriteAll(SetCell(wb, ws[1][1], ws[1][2]), Tail(ws))

\* src[key] for each required cell in turn; the first absent key raises
RECURSIVE WriteRequired(_, _, _)
WriteRequired(wb, src, cs) ==
  IF cs = <<>> THEN [wb |-> wb, err |-> None]
  ELSE IF cs[1][2] \notin DOMAIN src
    THEN [wb |-> wb, err |-> <<"KeyError", cs[1][2]>>]
    ELSE WriteRequired(SetCell(wb, cs[1][1], S(src[cs[1][2]])), src, Tail(cs))

\* a mapper that reads requestor_phone with a default instead of failing
populate_misc_fields_lenient(wb, src) ==
  IF "vendor" \notin DOMAIN src
    THEN [wb |-> wb, err |-> <<"KeyError", "vendor">>]
    ELSE WriteRequired(
           WriteAll(WriteAll(wb, VendorWrites(src["vendor"])),
                    DefaultedWrites(src)),
           [k \in DOMAIN src \cup {"requestor_phone"} |->
              IF k \in DOMAIN src THEN src[k] ELSE ""],
           RequiredCells)

\* populate_misc_fields: the workbook after it, and the exception it raised
populate_misc_fields(wb, src) ==
  IF "vendor" \notin DOMAIN src
    THEN [wb |-> wb, err |-> <<"KeyError", "vendor">>]
    ELSE WriteRequired(
           WriteAll(WriteAll(wb, VendorWrites(src["vendor"])),
                    DefaultedWrites(src)),
           src, RequiredCells)

\* the four cells of the item at 0-based position p of a chunk
PartWrites(p, part, info) ==
  << <<"A" \o Str(p + FirstRow), S(part)>>,
     <<"B" \o Str(p + FirstRow), Get(info, "desc", S(""))>>,
     <<"L" \o Str(p + FirstRow), Get(info, "quantity", I(1))>>,
     <<"Q" \o Str(p + FirstRow), Get(info, "unit_price", S("N/A"))>> >>

RECURSIVE PopulateFrom(_, _, _)
PopulateFrom(wb, parts, p) ==
  IF p >= Len(parts) THEN wb
  ELSE PopulateFrom(WriteAll(wb, PartWrites(p, parts[p + 1][1], parts[p + 1][2])),
                    parts, p + 1)

\* a mapper whose item area starts one row too low
populate_parts_shifted(wb, parts) ==
  LET RECURSIVE F(_, _)
      F(w, p) ==
        IF p >= Len(parts) THEN w
        ELSE F(WriteAll(w, PartWrites(p + 1, parts[p + 1][1], parts[p + 1][2])),
               p + 1)
  IN F(wb, 0)

\* populate_parts: for i, (part, info) in enumerate(parts.items())
populate_parts(wb, parts) == PopulateFrom(wb, parts, 0)

\* a numbering that counts the sheets from zero
place_sheet_number_zero(wb, i, n) ==
  SetCell(wb, "A52", S("Sheet " \o Str(i - 1) \o " of " \o Str(n)))

\* place_sheet_number
place_sheet_number(wb, i, n) ==
  SetCell(wb, "A52", S("Sheet " \o Str(i) \o " of " \o Str(n)))

\* splitext(src_filename)[0] of the input file "order.yml"
name == "order"

\* a naming that never adds the page suffix
output_name_plain(i, n) == name \o ".xlsx"

\* lines 99-102: the file name of the chunk with 0-based index i of n
output_name(i, n) ==
  IF n > 1 THEN name \o "_" \o Fmt02d(i) \o ".xlsx" ELSE name \o ".xlsx"

(* ---------------------------------------------------------------------- *)
(* Order records the model runs the program on                            *)
(* ---------------------------------------------------------------------- *)

\* the item-info mapping of the k-th item: each of its three fields is
\* given for some items and left out for others
ItemInfo(k) ==
  LET D == (IF k % 2 = 1 THEN {"desc"} ELSE {})
           \cup (IF k % 3 # 0 THEN {"quantity"} ELSE {})
           \cup (IF k % 4 < 2 THEN {"unit_price"} ELSE {})
  IN [f \in D |-> CASE f = "desc" -> S("desc " \o Str(k))
                    [] f = "quantity" -> I(k)
                    [] f = "unit_price" -> I(100 + k)]

\* an ordered item mapping of N entries with distinct keys
Items(N) == [k \in 1..N |-> <<"part" \o Str(k), ItemInfo(k)>>]

\* the sets of vendor fields a vendor section of the model gives
VendorPatterns ==
  << {}, {"name", "city", "zip", "contact_name"}, VendorKeys >>

\* the sets of optional top-level fields a record of the model gives
OptionalPatterns ==
  << {}, {"cost_object", "submission_date"}, OptionalTop >>

\* the record yaml.safe_load returns
Record(req, opt, hasVendor, vp, hasItems, N) ==
  [k \in req \cup opt \cup (IF hasVendor THEN {"vendor"} ELSE {})
         \cup (IF hasItems THEN {"items"} ELSE {}) |->
     CASE k = "vendor" -> [f \in VendorPatterns[vp] |-> "the " \o f]
       [] k = "items" -> Items(N)
       [] OTHER -> "the " \o k]

\* exit statuses of the conversion tool
RetCodes == {0, 1}

ConvertingMsg == "Converting output to pdf"

FailedMsg ==
  "Failed to convert the form to pdf. Is Libreoffice installed and available on PATH?"

(* ---------------------------------------------------------------------- *)
(* State                                                                  *)
(* ---------------------------------------------------------------------- *)

VARIABLES
  src,              \* self.src, the loaded order record
  pdf,              \* args.pdf
  toolOnPath,       \* whether the libreoffice executable is found
  netUp,            \* whether the template URL can be read
  pc,               \* the statement main() is at
  err,              \* the uncaught exception that ended the run, or None
  parts_chunked,    \* save_form's list of chunks
  i,                \* save_form's loop index
  blank_form_raw,   \* self._blank_form_raw
  workbook,         \* self.workbook
  fnames,           \* self.fnames
  disk,             \* the files of the output directory: name -> content
  fetches,          \* how many times urlopen was called
  writes,           \* the files written, in order: <<name, content>>
  j,                \* the conversion loop's index into fnames
  calls,            \* the tool's invocations, in order: <<name, status>>
  printed           \* the lines printed

vars ==
  <<src, pdf, toolOnPath, netUp, pc, err, parts_chunked, i, blank_form_raw,
    workbook, fnames, disk, fetches, writes, j, calls, printed>>

inputs == <<src, pdf, toolOnPath, netUp>>

\* the state after UNLRequisition(args.input_file)
Init ==
  /\ \E req \in SUBSET Required, op \in 1..Len(OptionalPatterns),
        hasVendor \in BOOLEAN, vp \in 1..Len(VendorPatterns),
        hasItems \in BOOLEAN, N \in 0..MaxItems :
       /\ hasVendor \/ vp = 1
       /\ hasItems \/ N = 0
       /\ src = Record(req, OptionalPatterns[op], hasVendor, vp, hasItems, N)
  /\ pdf \in BOOLEAN
  /\ toolOnPath \in BOOLEAN
  /\ netUp \in BOOLEAN
  /\ pc = "save_form"
  /\ err = None
  /\ parts_chunked = <<>>
  /\ i = 0
  /\ blank_form_raw = None
  /\ workbook = None
  /\ fnames = <<>>
  /\ disk = [f \in {} |-> None]
  /\ fetches = 0
  /\ writes = <<>>
  /\ j = 0
  /\ calls = <<>>
  /\ printed = <<>>

\* an uncaught exception ends the run
Raise(e) == pc' = "crashed" /\ err' = e

(* ---------------------------------------------------------------------- *)
(* save_form                                                              *)
(* ---------------------------------------------------------------------- *)

\* line 92: parts_chunked = chunks(self.src["items"], 10)
SaveFormBegin ==
  /\ pc = "save_form"
  /\ IF "items" \notin DOMAIN src
       THEN Raise(<<"KeyError", "items">>) /\ UNCHANGED parts_chunked
       ELSE /\ parts_chunked' = chunks(src["items"], Capacity)
            /\ pc' = IF Len(parts_chunked') > 0 THEN "fetch" ELSE "pdf"
            /\ UNCHANGED err
  /\ i' = 0
  /\ UNCHANGED <<inputs, blank_form_raw, workbook, fnames, disk, fetches,
                 writes, j, calls, printed>>

\* a fetcher that keeps the decoded workbook instead of the bytes
FetchEmptyForm_reuse ==
  /\ pc = "fetch"
  /\ IF blank_form_raw = None /\ ~netUp
       THEN /\ Raise(<<"URLError", "unreachable">>)
            /\ fetches' = fetches + 1
            /\ UNCHANGED <<blank_form_raw, workbook>>
       ELSE /\ blank_form_raw' = TemplateBytes
            /\ fetches' = IF blank_form_raw = None THEN fetches + 1 ELSE fetches
            /\ workbook' = IF workbook = None
                             THEN load_workbook(blank_form_raw')
                             ELSE workbook
            /\ pc' = "parts"
            /\ UNCHANGED err
  /\ UNCHANGED <<inputs, parts_chunked, i, fnames, disk, writes, j, calls,
                 printed>>

\* fetch_empty_form
FetchEmptyForm ==
  /\ pc = "fetch"
  /\ IF blank_form_raw = None /\ ~netUp
       THEN /\ Raise(<<"URLError", "unreachable">>)
            /\ fetches' = fetches + 1
            /\ UNCHANGED <<blank_form_raw, workbook>>
       ELSE /\ blank_form_raw' = IF blank_form_raw = None
                                   THEN TemplateBytes ELSE blank_form_raw
            /\ fetches' = IF blank_form_raw = None THEN fetches + 1 ELSE fetches
            /\ workbook' = load_workbook(blank_form_raw')
            /\ pc' = "parts"
            /\ UNCHANGED err
  /\ UNCHANGED <<inputs, parts_chunked, i, fnames, disk, writes, j, calls,
                 printed>>

\* line 95: self.populate_parts(parts_chunk)
PopulateParts ==
  /\ pc = "parts"
  /\ workbook' = populate_parts(workbook, parts_chunked[i + 1])
  /\ pc' = "misc"
  /\ UNCHANGED <<inputs, err, parts_chunked, i, blank_form_raw, fnames, disk,
                 fetches, writes, j, calls, printed>>

\* line 96: self.populate_misc_fields()
PopulateMiscFields ==
  /\ pc = "misc"
  /\ LET r == populate_misc_fields(workbook, src)
     IN /\ workbook' = r.wb
        /\ IF r.err = None
             THEN pc' = "sheet" /\ UNCHANGED err
             ELSE Raise(r.err)
  /\ UNCHANGED <<inputs, parts_chunked, i, blank_form_raw, fnames, disk,
                 fetches, writes, j, calls, printed>>

\* line 97: self.place_sheet_number(i + 1, len(parts_chunked))
PlaceSheetNumber ==
  /\ pc = "sheet"
  /\ workbook' = place_sheet_number(workbook, i + 1, Len(parts_chunked))
  /\ pc' = "write"
  /\ UNCHANGED <<inputs, err, parts_chunked, i, blank_form_raw, fnames, disk,
                 fetches, writes, j, calls, printed>>

\* lines 99-104: name the page, write it, and go to the next chunk
WriteForm ==
  /\ pc = "write"
  /\ fnames' = Append(fnames, output_name(i, Len(parts_chunked)))
  /\ LET f == fnames'[Len(fnames')]
     IN /\ disk' = [x \in DOMAIN disk \cup {f} |->
                      IF x = f THEN workbook ELSE disk[x]]
        /\ writes' = Append(writes, <<f, workbook>>)
  /\ i' = i + 1
  /\ pc' = IF i + 1 < Len(parts_chunked) THEN "fetch" ELSE "pdf"
  /\ UNCHANGED <<inputs, err, parts_chunked, blank_form_raw, workbook,
                 fetches, j, calls, printed>>

(* ---------------------------------------------------------------------- *)
(* main, after save_form                                                  *)
(* ---------------------------------------------------------------------- *)

\* lines 119-124: if args.pdf, announce the conversion and start the loop
PdfBegin ==
  /\ pc = "pdf"
  /\ IF pdf
       THEN /\ printed' = Append(printed, ConvertingMsg)
            /\ pc' = IF Len(fnames) > 0 THEN "convert" ELSE "done"
       ELSE /\ pc' = "done"
            /\ UNCHANGED printed
  /\ j' = 0
  /\ UNCHANGED <<inputs, err, parts_chunked, i, blank_form_raw, workbook,
                 fnames, disk, fetches, writes, calls>>

\* a converter that gives up at the first failed conversion
Convert_stop ==
  /\ pc = "convert"
  /\ LET fname == fnames[j + 1]
     IN IF ~toolOnPath
          THEN /\ Raise(<<"FileNotFoundError", "libreoffice">>)
               /\ UNCHANGED <<disk, calls, printed, j>>
          ELSE \E retcode \in RetCodes :
                 /\ calls' = Append(calls, <<fname, retcode>>)
                 /\ IF retcode = 0
                      THEN /\ disk' = [x \in DOMAIN disk \ {fname} |-> disk[x]]
                           /\ pc' = IF j + 1 < Len(fnames)
                                      THEN "convert" ELSE "done"
                           /\ UNCHANGED <<printed, err>>
                      ELSE /\ printed' = Append(printed, FailedMsg)
                           /\ pc' = "done"
                           /\ UNCHANGED <<disk, err>>
                 /\ j' = j + 1
  /\ UNCHANGED <<inputs, parts_chunked, i, blank_form_raw, workbook, fnames,
                 fetches, writes>>

\* lines 124-134: one iteration of `for fname in form.fnames`
Convert ==
  /\ pc = "convert"
  /\ LET fname == fnames[j + 1]
     IN IF ~toolOnPath
          THEN \* subprocess.call raises when the executable is not found
               /\ Raise(<<"FileNotFoundError", "libreoffice">>)
               /\ UNCHANGED <<disk, calls, printed, j>>
          ELSE \E retcode \in RetCodes :
                 /\ calls' = Append(calls, <<fname, retcode>>)
                 /\ IF retcode = 0
                      THEN IF fname \in DOMAIN disk
                             THEN /\ disk' = [x \in DOMAIN disk \ {fname} |->
                                                disk[x]]
                                  /\ pc' = IF j + 1 < Len(fnames)
                                             THEN "convert" ELSE "done"
                                  /\ UNCHANGED <<printed, err>>
                             ELSE \* os.remove of a file that is not there
                                  /\ Raise(<<"FileNotFoundError", fname>>)
                                  /\ UNCHANGED <<disk, printed>>
                      ELSE /\ printed' = Append(printed, FailedMsg)
                           /\ pc' = IF j + 1 < Len(fnames)
                                      THEN "convert" ELSE "done"
                           /\ UNCHANGED <<disk, err>>
                 /\ j' = j + 1
  /\ UNCHANGED <<inputs, parts_chunked, i, blank_form_raw, workbook, fnames,
                 fetches, writes>>

Next ==
  \/ SaveFormBegin
  \/ FetchEmptyForm
  \/ PopulateParts
  \/ PopulateMiscFields
  \/ PlaceSheetNumber
  \/ WriteForm
  \/ PdfBegin
  \/ Convert

Spec == Init /\ [][Next]_vars

TypeOK ==
  /\ pc \in {"save_form", "fetch", "parts", "misc", "sheet", "write", "pdf",
             "convert", "done", "crashed"}
  /\ (pc = "crashed") = (err # None)

(* ---------------------------------------------------------------------- *)
(* Vocabulary of the properties                                           *)
(* ---------------------------------------------------------------------- *)

HasItems == "items" \in DOMAIN src

\* the number of items of the record (0 when it has no item mapping)
NItems == IF HasItems THEN Len(src["items"]) ELSE 0

LacksRequired == ~(Required \subseteq DOMAIN src)

\* line 92 has been executed and returned
ChunksComputed == HasItems /\ pc # "save_form"

\* save_form has returned
SaveFormDone ==
  \/ pc \in {"pdf", "convert", "done"}
  \/ pc = "crashed" /\ err[1] = "FileNotFoundError"

RECURSIVE Concat(_)
Concat(ss) == IF ss = <<>> THEN <<>> ELSE ss[1] \o Concat(Tail(ss))

CeilDiv(a, b) == (a + b - 1) \div b

\* the names of rows 32..41, by 0-based position
RowName == <<"32", "33", "34", "35", "36", "37", "38", "39", "40", "41">>

\* decimal numerals of 1..9
Numeral == <<"1", "2", "3", "4", "5", "6", "7", "8", "9">>

\* the page suffixes of the first ten pages
Suffix == <<"00", "01", "02", "03", "04", "05", "06", "07", "08", "09">>

ItemColumns == {"A", "B", "L", "Q"}

\* the item cells of the first m rows of the item area
ItemCells(m) == {col \o RowName[p] : col \in ItemColumns, p \in 1..m}

Range(f) == {f[x] : x \in DOMAIN f}

(* ---------------------------------------------------------------------- *)
(* Properties                                                             *)
(* ---------------------------------------------------------------------- *)

\* C1: for an item mapping of N >= 1 entries, chunks(items, 10) returns
\* ceil(N/10) chunks of 1 to 10 entries each, whose concatenation in order
\* is the original mapping (same entries, same values, same order).
C1_ChunksPartition ==
  (ChunksComputed /\ NItems >= 1) =>
    /\ Len(parts_chunked) = CeilDiv(NItems, 10)
    /\ \A c \in 1..Len(parts_chunked) :
         Len(parts_chunked[c]) >= 1 /\ Len(parts_chunked[c]) <= 10
    /\ Concat(parts_chunked) = src["items"]

C1_Witness ==
  /\ ChunksComputed
  /\ NItems = 25
  /\ Len(parts_chunked) = 3
  /\ Len(parts_chunked[3]) = 5

\* C2 as stated: an empty item mapping gives one empty chunk, so save_form
\* fetches the template and writes exactly one form (fnames has length 1).
C2_OneBlankForm ==
  (HasItems /\ NItems = 0 /\ SaveFormDone) =>
    /\ parts_chunked = << <<>> >>
    /\ fetches = 1
    /\ Len(fnames) = 1
    /\ Len(writes) = 1

\* C2 amended: an empty item mapping gives no chunk at all, so save_form
\* returns without fetching the template, without raising and without
\* writing any file (fnames stays empty).
C2_NoFormForNoItems ==
  (HasItems /\ NItems = 0) =>
    /\ pc \in {"save_form", "pdf", "done"}
    /\ parts_chunked = <<>>
    /\ fetches = 0
    /\ workbook = None
    /\ fnames = <<>>
    /\ writes = <<>>
    /\ DOMAIN disk = {}

C2_Witness == HasItems /\ NItems = 0 /\ pc = "done" /\ pdf

\* C3 as stated: a record lacking a required field makes save_form fail
\* before any file is written, whatever its item mapping.
C3_AlwaysFails ==
  LacksRequired => /\ ~SaveFormDone
                   /\ writes = <<>>

\* C3 amended: a record lacking a required field and holding at least one
\* item makes save_form fail in its first chunk: the run never gets past
\* the misc-fields step of that chunk, where only an exception ends it,
\* and no file is ever written.
C3_FailsBeforeFirstWrite ==
  (LacksRequired /\ NItems >= 1) =>
    /\ pc \in {"save_form", "fetch", "parts", "misc", "crashed"}
    /\ i = 0
    /\ fnames = <<>>
    /\ writes = <<>>
    /\ DOMAIN disk = {}

C3_Witness ==
  /\ LacksRequired
  /\ NItems > 10
  /\ "vendor" \in DOMAIN src
  /\ pc = "crashed"
  /\ err = <<"KeyError", "requestor_phone">>
  /\ writes = <<>>

\* C4: with --pdf and the tool available, the tool is run once per file of
\* fnames, in order, whatever the earlier outcomes; a file is deleted iff
\* its own conversion returned 0, a nonzero status prints one diagnostic
\* and the loop goes on to the end of fnames.
C4_ConversionPerFile ==
  (pdf /\ toolOnPath) =>
    /\ Len(calls) = j
    /\ j <= Len(fnames)
    /\ \A k \in 1..Len(calls) :
         /\ calls[k][1] = fnames[k]
         /\ (fnames[k] \in DOMAIN disk) <=> (calls[k][2] # 0)
    /\ SaveFormDone =>
         \A k \in (Len(calls) + 1)..Len(fnames) : fnames[k] \in DOMAIN disk
    /\ Cardinality({k \in 1..Len(printed) : printed[k] = FailedMsg})
         = Cardinality({k \in 1..Len(calls) : calls[k][2] # 0})
    /\ pc = "done" => Len(calls) = Len(fnames)
    /\ pc = "crashed" => calls = <<>>

C4_Witness ==
  /\ pdf /\ toolOnPath
  /\ pc = "done"
  /\ Len(calls) = 3
  /\ calls[1][2] = 1
  /\ calls[2][2] = 0
  /\ calls[3][2] = 1
  /\ DOMAIN disk = {fnames[1], fnames[3]}

\* C5 as stated: with --pdf and the tool's executable missing, the run does
\* not end abruptly; it ends normally with every file of fnames attempted,
\* a diagnostic printed for each, and every written file still in place.
C5_MissingToolIsNotFatal ==
  (pdf /\ ~toolOnPath /\ fnames # <<>>) =>
    /\ ~(pc = "crashed" /\ err[1] = "FileNotFoundError")
    /\ pc = "done" =>
         /\ j = Len(fnames)
         /\ Cardinality({k \in 1..Len(printed) : printed[k] = FailedMsg})
              = Len(fnames)
         /\ DOMAIN disk = Range(fnames)

\* C6: when save_form has returned with n chunks, fnames holds n names in
\* chunk order and exactly those files were written: "<name>.xlsx" for
\* n = 1, "<name>_NN.xlsx" with NN the 0-based chunk index on two digits for
\* n > 1; the names are pairwise distinct, so no page overwrote another.
C6_FileNames ==
  SaveFormDone =>
    LET n == Len(parts_chunked)
    IN /\ Len(fnames) = n
       /\ Len(writes) = n
       /\ \A k \in 1..n : writes[k][1] = fnames[k]
       /\ n = 1 => fnames = <<"order.xlsx">>
       /\ n > 1 => \A k \in 1..n :
                     fnames[k] = "order_" \o Suffix[k] \o ".xlsx"
       /\ \A k, l \in 1..n : k # l => fnames[k] # fnames[l]
       /\ pc = "pdf" => /\ DOMAIN disk = Range(fnames)
                        /\ \A k \in 1..n : disk[fnames[k]] = writes[k][2]

C6_Witness ==
  /\ pc = "pdf"
  /\ NItems = 25
  /\ fnames = <<"order_00.xlsx", "order_01.xlsx", "order_02.xlsx">>

\* C7: the template bytes are fetched once however many chunks follow, and
\* each chunk's workbook is decoded afresh from them: every written file is
\* the blank template plus the writes of its own chunk only, so the rows
\* of the item area past the chunk's last item are as in the template.
C7_FreshTemplatePerChunk ==
  /\ fetches <= 1
  /\ writes # <<>> => fetches = 1 /\ blank_form_raw = TemplateBytes
  /\ \A k \in 1..Len(writes) :
       LET m == Len(parts_chunked[k])
       IN /\ DOMAIN writes[k][2] = MiscCells \cup {"A52"} \cup ItemCells(m)
          /\ \A p \in (m + 1)..10, col \in ItemColumns :
               (col \o RowName[p]) \notin DOMAIN writes[k][2]

C7_Witness ==
  /\ Len(writes) = 3
  /\ Len(parts_chunked[2]) = 10
  /\ Len(parts_chunked[3]) = 5
  /\ "A36" \in DOMAIN writes[3][2]
  /\ "A37" \notin DOMAIN writes[3][2]
  /\ fetches = 1

\* C8: every written file carries "Sheet i of n" in cell A52, n the number
\* of chunks of the run and i the 1-based position of the file's chunk; i
\* runs through 1..n once, in production order.
C8_SheetNumbers ==
  /\ \A k \in 1..Len(writes) :
       /\ "A52" \in DOMAIN writes[k][2]
       /\ writes[k][2]["A52"] =
            S("Sheet " \o Numeral[k] \o " of " \o Numeral[Len(parts_chunked)])
  /\ SaveFormDone => Len(writes) = Len(parts_chunked)

C8_Witness ==
  /\ SaveFormDone
  /\ Len(writes) = 3
  /\ writes[2][2]["A52"] = S("Sheet 2 of 3")

\* C9 as stated: misc-fields population fails only when one of the four
\* required fields is absent; a record that has the four never fails
\* there, whichever other fields (the vendor section included) it lacks.
C9_OnlyRequiredFieldsFail ==
  (Required \subseteq DOMAIN src /\ HasItems) => pc # "crashed" \/ err[1] # "KeyError"

\* C10: in every written file, the item at 0-based position p of the file's
\* chunk is in row 32 + p: key in column A, description in B (default ""),
\* quantity in L (default 1), unit price in Q (default "N/A"); no item
\* cell outside rows 32..41 is ever written.
C10_ItemRows ==
  /\ \A k \in 1..Len(writes) :
       LET wb == writes[k][2]
           chunk == parts_chunked[k]
       IN /\ \A p \in 1..Len(chunk) :
               LET info == chunk[p][2]
               IN /\ wb["A" \o RowName[p]] = S(chunk[p][1])
                  /\ chunk[p] = src["items"][10 * (k - 1) + p]
                  /\ wb["B" \o RowName[p]] =
                       (IF "desc" \in DOMAIN info THEN info["desc"] ELSE S(""))
                  /\ wb["L" \o RowName[p]] =
                       (IF "quantity" \in DOMAIN info
                          THEN info["quantity"] ELSE I(1))
                  /\ wb["Q" \o RowName[p]] =
                       (IF "unit_price" \in DOMAIN info
                          THEN info["unit_price"] ELSE S("N/A"))
          /\ DOMAIN wb \ (MiscCells \cup {"A52"}) \subseteq ItemCells(10)
  /\ workbook # None =>
       DOMAIN workbook \ (MiscCells \cup {"A52"}) \subseteq ItemCells(10)

C10_Witness ==
  /\ Len(writes) >= 2
  /\ writes[1][2]["A41"] = S("part10")
  /\ writes[1][2]["Q41"] = S("N/A")
  /\ writes[1][2]["L34"] = I(1)
  /\ writes[1][2]["B33"] = S("")
  /\ writes[2][2]["A32"] = S("part11")
  /\ writes[2][2]["L32"] = I(11)

====
